---------------------------- MODULE Spec2Model ----------------------------
(***************************************************************************)
(* stock-stream-2: the rate-limited fetch-with-retry state machine of      *)
(* YahooFinanceFetcher (modules/stock_data_fetcher/fetcher.py) and the     *)
(* validators it calls (modules/common/validators.py).                     *)
(*                                                                         *)
(* The specifications share the actions of fetch_single_symbol:            *)
(*   SpecSingle      a client calls fetch_single_symbol on one Fetcher, up *)
(*                   to MaxCalls times;                                    *)
(*   Spec            one fetch_multiple_symbols call on a fresh Fetcher;   *)
(*   SpecValidators  one caller of validators.py;                          *)
(*   SpecHandler     one lambda_handler invocation;                        *)
(*   SpecTwo         two Fetchers, each on its own partition, interleaved; *)
(*   SpecSplit       one split_into_batches call.                          *)
(*                                                                         *)
(* Time is in whole seconds.  A symbol is a sequence of one-character      *)
(* strings.  Prices and volumes are integers: the remote source's bar is   *)
(* converted with float()/int(), which are total on the numeric columns.   *)
(***************************************************************************)
EXTENDS Integers, Sequences, FiniteSets, TLC

VARIABLES
    max_retries,        \* self.max_retries
    retry_delay,        \* self.retry_delay
    rate_limit_delay,   \* self.rate_limit_delay
    symbols_fetched,    \* self.symbols_fetched
    symbols_failed,     \* self.symbols_failed
    pc,                 \* control point: idle, loop, requesting, returned, raised, aborted, done
    symbol,             \* fetch_single_symbol: the symbol argument
    attempt,            \* fetch_single_symbol: the loop variable
    fs_result,          \* fetch_single_symbol: <<>> for None, <<obs>> for a dict
    fs_exc,             \* fetch_single_symbol: the exception it raised, "" for none
    trace,              \* this call's remote requests and time.sleep calls, in order
    fetched0,           \* symbols_fetched when this call began
    failed0,            \* symbols_failed when this call began
    calls,              \* fetch_single_symbol calls made on this Fetcher
    symbols,            \* fetch_multiple_symbols: the symbols argument
    i,                  \* fetch_multiple_symbols: the enumerate index
    results,            \* fetch_multiple_symbols: the results list
    fetchlog,           \* <<index, obs>> of every successful fetch, in order
    paces,              \* the pacing sleeps of fetch_multiple_symbols, in order
    outcome,            \* fetch_multiple_symbols: running, returned or the exception
    df,                 \* fetch_multiple_symbols: the returned DataFrame's rows
    attempted,          \* DataFetchError.details["symbols_attempted"], -1 for none
    vop,                \* the validator under call: none, row or symbol
    vrow,               \* validate_ohlcv_row: the row argument
    vsym,               \* validate_symbol: the symbol argument
    vdone,              \* the validator call has ended
    row_out,            \* validate_ohlcv_row: what it raised and what it returned
    sym_out,            \* validate_symbol: pending, returned or the exception
    vdate,              \* validate_date: the date_value argument
    today,              \* validate_date: what date.today() returns
    date_out,           \* validate_date: what it raised and what it returned
    vframe,             \* validate_dataframe: the df argument
    frame_outs,         \* validate_dataframe: the calls made, each with its df and result
    hpc,                \* lambda_handler: none, start, config, fetching, uploaded, caught, responded, raised
    status,             \* lambda_handler: the statusCode returned, 0 for none yet
    uploads,            \* lambda_handler: calls of upload_dataframe made
    herror,             \* lambda_handler: the exception its try block raised, "" for none
    log_level,          \* the LOG_LEVEL of the environment, OFF when the host has silenced logging
    other,              \* the instance state of the Fetcher that is not running
    cur,                \* the Fetcher that is running, 1 or 2
    sp_symbols,         \* split_into_batches: the symbols argument
    sp_size,            \* split_into_batches: the batch_size argument
    sp_out              \* split_into_batches: the batches returned

vars == <<max_retries, retry_delay, rate_limit_delay, symbols_fetched,
          symbols_failed, pc, symbol, attempt, fs_result, fs_exc, trace,
          fetched0, failed0, calls, symbols, i, results, fetchlog, paces,
          outcome, df, attempted, vop, vrow, vsym, vdone, row_out, sym_out,
          vdate, today, date_out, vframe, frame_outs, hpc, status, uploads,
          herror, log_level, other, cur, sp_symbols, sp_size, sp_out>>

fetcherVars == <<max_retries, retry_delay, rate_limit_delay>>
batchVars == <<symbols, i, results, paces, outcome, df, attempted>>
dateVars == <<vdate, today, date_out>>
frameVars == <<vframe, frame_outs>>
validatorVars == <<vop, vrow, vsym, vdone, row_out, sym_out, dateVars, frameVars>>
handlerVars == <<hpc, status, uploads, herror, log_level>>
instanceVars == <<other, cur>>
splitVars == <<sp_symbols, sp_size, sp_out>>
outerVars == <<handlerVars, instanceVars, splitVars>>

----------------------------------------------------------------------------
(* Bounds of the model. *)

MaxRetries == 3
MaxBatchRetries == 2
MaxSymbols == 3
MaxCalls == 2

(* Program constants. *)

DefaultRetryDelay == 60
DefaultRateLimitDelay == 2

RetryDelays == {1, DefaultRetryDelay}

----------------------------------------------------------------------------
(* Symbols. *)

UpperChars == {"A", "B", "C", "H", "P", "X", "Y", "Z"}
DigitChars == {"0", "1", "9"}
Newline == "\n"

SymA == <<"A">>
SymB1 == <<"B", "1">>
SymEmpty == <<>>
SymLower == <<"b", "h", "p">>
SymLong == <<"A", "B", "C", "X", "Y", "Z">>
SymDot == <<"A", ".", "X">>

WellFormedPool == {SymA, SymB1}
MalformedPool == {SymEmpty, SymLower, SymLong, SymDot}
BatchPool == {SymA, SymB1, SymLower}

(* A symbol of the spec's pattern: 1 to 5 characters, each an uppercase    *)
(* ASCII letter or a digit.                                                *)
WellFormed(s) ==
    /\ Len(s) \in 1..5
    /\ \A k \in 1..Len(s) : s[k] \in UpperChars \cup DigitChars

(* re.match(r"^[A-Z0-9]{1,5}$", symbol): `$` also matches just before a    *)
(* newline that ends the string.                                           *)
RegexMatches(s) ==
    \/ WellFormed(s)
    \/ /\ Len(s) \in 2..6
       /\ s[Len(s)] = Newline
       /\ WellFormed(SubSeq(s, 1, Len(s) - 1))

(* validate_symbol: TRUE when it returns, FALSE when it raises             *)
(* ValidationError.                                                        *)
validate_symbol(s) ==
    IF s = <<>> THEN FALSE
    ELSE RegexMatches(s)

----------------------------------------------------------------------------
(* The remote source: what one ticker.history call does. *)

ExcMessages == {"429 Too Many Requests", "Too Many Requests", "Network error"}

(* "429" in str(e).lower() *)
Has429(msg) == msg \in {"429 Too Many Requests"}
(* "too many requests" in str(e).lower() *)
HasTooManyRequests(msg) == msg \in {"429 Too Many Requests", "Too Many Requests"}

IsRateLimitMutant(msg) == Has429(msg) /\ HasTooManyRequests(msg)
IsRateLimit(msg) == Has429(msg) \/ HasTooManyRequests(msg)

NoBar == [date |-> 0, open |-> 0, high |-> 0, low |-> 0, close |-> 0, volume |-> 0]
GoodBar == [date |-> 1, open |-> 2, high |-> 3, low |-> 1, close |-> 2, volume |-> 10]
ZeroOpenBar == [date |-> 1, open |-> 0, high |-> 2, low |-> 0, close |-> 1, volume |-> 0]
InvertedBar == [date |-> 2, open |-> 2, high |-> 1, low |-> 4, close |-> -1, volume |-> 5]

Bars == {GoodBar, ZeroOpenBar, InvertedBar}

Responses ==
    [kind : {"exception"}, msg : ExcMessages, bar : {NoBar}]
        \cup [kind : {"empty"}, msg : {""}, bar : {NoBar}]
        \cup [kind : {"data"}, msg : {""}, bar : Bars]

(* The result dict built from the first row of a non-empty response. *)
Observation(s, bar) ==
    [symbol |-> s, date |-> bar.date, open |-> bar.open, high |-> bar.high,
     low |-> bar.low, close |-> bar.close, volume |-> bar.volume,
     adjusted_close |-> bar.close]

RECURSIVE Pow2(_)
Pow2(n) == IF n <= 0 THEN 1 ELSE 2 * Pow2(n - 1)

(* delay = self.retry_delay * (2**attempt) *)
BackoffDelayMutant(a) == retry_delay * (2 * a)
BackoffDelay(a) == retry_delay * Pow2(a)

(* range(self.max_retries) *)
AttemptRangeMutant == 0..max_retries
AttemptRange == 0..(max_retries - 1)

(* attempt < self.max_retries - 1 *)
NotLastAttemptMutant(a) == a < max_retries
NotLastAttemptEarly(a) == a < max_retries - 2
NotLastAttempt(a) == a < max_retries - 1

(* One entry of the call's trace: a ticker.history call with the response  *)
(* it got, or a time.sleep call with its argument.                         *)
ReqEvent(resp) ==
    [ev |-> "request", kind |-> resp.kind, msg |-> resp.msg, bar |-> resp.bar, delay |-> 0]
SleepEvent(d) ==
    [ev |-> "sleep", kind |-> "", msg |-> "", bar |-> NoBar, delay |-> d]

----------------------------------------------------------------------------
(* validators.py *)

Opt(cond, e) == IF cond THEN <<e>> ELSE <<>>

RequiredFields == <<"open", "high", "low", "close", "volume">>

MissingFields(row) ==
    SelectSeq(RequiredFields, LAMBDA f : f \notin DOMAIN row)

Abs(x) == IF x < 0 THEN -x ELSE x

(* The numbers a field can hold: a float is modelled by an integer, and    *)
(* float("nan"), float("inf"), float("-inf") by three integers outside the *)
(* range of the finite values used.                                        *)
NaN == 9999
PosInf == 1000
NegInf == -1000

(* math.isfinite(value) *)
IsFinite(v) == v \notin {NaN, PosInf, NegInf}

(* Python's <, <=, > on floats: every comparison with NaN is False. *)
FLt(a, b) == a # NaN /\ b # NaN /\ a < b
FLe(a, b) == a # NaN /\ b # NaN /\ a <= b
FGt(a, b) == a # NaN /\ b # NaN /\ a > b

(* abs(close - open) / open >= 0.5 *)
SuspiciousChangeMutant(open, close) ==
    IF open = NaN \/ close = NaN THEN FALSE
    ELSE IF ~IsFinite(open) THEN FALSE
    ELSE IF ~IsFinite(close) THEN open > 0
    ELSE IF open > 0 THEN 2 * Abs(close - open) >= open
    ELSE FALSE

(* abs(close - open) / open > 0.5, for open # 0.  A NaN operand, an        *)
(* infinite open (inf/inf is NaN) and a negative open give False; an       *)
(* infinite close over a finite positive open gives inf > 0.5.             *)
SuspiciousChange(open, close) ==
    IF open = NaN \/ close = NaN THEN FALSE
    ELSE IF ~IsFinite(open) THEN FALSE
    ELSE IF ~IsFinite(close) THEN open > 0
    ELSE IF open > 0 THEN 2 * Abs(close - open) > open
    ELSE FALSE

(* The division of line 112 raises ZeroDivisionError when open is 0. *)
RowRaises(row) == MissingFields(row) = <<>> /\ row["open"] = 0

(* Lines 80-83 going on to the positivity check of the fields present. *)
MissingErrorsMutant(row) ==
    <<<<"missing", Head(MissingFields(row))>>>>
        \o Opt("open" \in DOMAIN row /\ FLe(row["open"], 0), <<"positive", "open">>)

(* Lines 80-83: the first missing field is reported and the call returns. *)
MissingErrors(row) == <<<<"missing", Head(MissingFields(row))>>>>

(* validate_ohlcv_row: the error list, when it returns. *)
RowErrors(row) ==
    IF MissingFields(row) # <<>>
    THEN MissingErrors(row)
    ELSE Opt(FLe(row["open"], 0), <<"positive", "open">>)
         \o Opt(FLe(row["high"], 0), <<"positive", "high">>)
         \o Opt(FLe(row["low"], 0), <<"positive", "low">>)
         \o Opt(FLe(row["close"], 0), <<"positive", "close">>)
         \o Opt(FLt(row["volume"], 0), <<"non-negative", "volume">>)
         \o Opt(FLt(row["high"], row["low"]), <<"order", "high", "low">>)
         \o Opt(FLt(row["high"], row["open"]), <<"order", "high", "open">>)
         \o Opt(FLt(row["high"], row["close"]), <<"order", "high", "close">>)
         \o Opt(FGt(row["low"], row["open"]), <<"order", "low", "open">>)
         \o Opt(FGt(row["low"], row["close"]), <<"order", "low", "close">>)
         \o Opt(SuspiciousChange(row["open"], row["close"]), <<"suspicious", "open", "close">>)
         \o Opt(~IsFinite(row["open"]), <<"finite", "open">>)
         \o Opt(~IsFinite(row["high"]), <<"finite", "high">>)
         \o Opt(~IsFinite(row["low"]), <<"finite", "low">>)
         \o Opt(~IsFinite(row["close"]), <<"finite", "close">>)
         \o Opt(~IsFinite(row["volume"]), <<"finite", "volume">>)

(* Dates: a date object is its year, month and day. *)
MinDate == [y |-> 1990, m |-> 1, d |-> 1]

(* a <= b and a < b on date objects *)
DateLtMutant(a, b) == <<a.y, a.m, a.d>> = <<b.y, b.m, b.d>> \/
    (a.y < b.y \/ (a.y = b.y /\ (a.m < b.m \/ (a.m = b.m /\ a.d < b.d))))
DateLt(a, b) ==
    a.y < b.y \/ (a.y = b.y /\ (a.m < b.m \/ (a.m = b.m /\ a.d < b.d)))

IsLeap(y) == ((y % 4) = 0 /\ (y % 100) # 0) \/ (y % 400) = 0

DaysIn(y, m) ==
    IF m \in {4, 6, 9, 11} THEN 30
    ELSE IF m = 2 THEN (IF IsLeap(y) THEN 29 ELSE 28)
    ELSE 31

DigitSeq == <<"0", "1", "2", "3", "4", "5", "6", "7", "8", "9">>
IsDigit(c) == \E k \in 1..10 : DigitSeq[k] = c
DigitVal(c) == (CHOOSE k \in 1..10 : DigitSeq[k] = c) - 1

RECURSIVE Number(_)
Number(cs) ==
    IF cs = <<>> THEN 0
    ELSE 10 * Number(SubSeq(cs, 1, Len(cs) - 1)) + DigitVal(cs[Len(cs)])

Pad2(n) == <<DigitSeq[((n \div 10) % 10) + 1], DigitSeq[(n % 10) + 1]>>
Pad4(n) == Pad2(n \div 100) \o Pad2(n % 100)

(* date.isoformat(): YYYY-MM-DD *)
isoformat(dt) == Pad4(dt.y) \o <<"-">> \o Pad2(dt.m) \o <<"-">> \o Pad2(dt.d)

(* datetime.fromisoformat(text).date() on a text of the shape YYYY-MM-DD:  *)
(* ok is FALSE where it raises ValueError.                                 *)
fromisoformat(text) ==
    IF /\ Len(text) = 10
       /\ text[5] = "-" /\ text[8] = "-"
       /\ \A k \in {1, 2, 3, 4, 6, 7, 9, 10} : IsDigit(text[k])
    THEN LET y == Number(SubSeq(text, 1, 4))
             m == Number(SubSeq(text, 6, 7))
             d == Number(SubSeq(text, 9, 10))
         IN IF y >= 1 /\ m \in 1..12 /\ d >= 1 /\ d <= DaysIn(y, m)
            THEN [ok |-> TRUE, date |-> [y |-> y, m |-> m, d |-> d]]
            ELSE [ok |-> FALSE, date |-> MinDate]
    ELSE [ok |-> FALSE, date |-> MinDate]

(* validate_date, with now the value of date.today(). *)
validate_date(date_value, now) ==
    LET parsed == IF date_value.kind = "str"
                  THEN fromisoformat(date_value.text)
                  ELSE [ok |-> TRUE, date |-> date_value.date]
    IN IF ~parsed.ok THEN [raised |-> "ValidationError", value |-> MinDate]
       ELSE IF DateLt(now, parsed.date) THEN [raised |-> "ValidationError", value |-> MinDate]
       ELSE IF DateLt(parsed.date, MinDate) THEN [raised |-> "ValidationError", value |-> MinDate]
       ELSE [raised |-> "", value |-> parsed.date]

(* The row of test_valid_row, scaled down. *)
ValidRow == [open |-> 2, high |-> 3, low |-> 1, close |-> 2, volume |-> 10]

validate_ohlcv_row(row) ==
    IF RowRaises(row)
    THEN [raised |-> "ZeroDivisionError", errors |-> <<>>]
    ELSE [raised |-> "", errors |-> RowErrors(row)]

(* df.select(["symbol", "date"]).is_duplicated().sum(): the rows whose     *)
(* (symbol, date) pair some other row shares.                              *)
Duplicates(rows) ==
    Cardinality({k \in 1..Len(rows) :
        \E j \in 1..Len(rows) :
            j # k /\ rows[j].symbol = rows[k].symbol /\ rows[j].date = rows[k].date})

RECURSIVE AllRowErrors(_)
AllRowErrors(rows) ==
    IF rows = <<>> THEN <<>>
    ELSE [e \in 1..Len(RowErrors(Head(rows))) |->
             <<Head(rows).symbol, Head(rows).date>> \o RowErrors(Head(rows))[e]]
         \o AllRowErrors(Tail(rows))

(* validate_dataframe over a frame that holds every required column (the   *)
(* result dicts of fetch_single_symbol do).                                *)
validate_dataframe(rows) ==
    IF rows = <<>>
    THEN [raised |-> "", errors |-> <<<<"empty">>>>]
    ELSE IF \E k \in 1..Len(rows) : RowRaises(rows[k])
    THEN [raised |-> "ZeroDivisionError", errors |-> <<>>]
    ELSE [raised |-> "",
          errors |-> Opt(Duplicates(rows) > 0, <<"duplicates", Duplicates(rows)>>)
                     \o AllRowErrors(rows)]

(* validate_dataframe's df: its columns and its rows, each row a record    *)
(* over the columns.                                                       *)
RequiredColumns == <<"symbol", "date", "open", "high", "low", "close", "volume">>

MissingColumns(frame) ==
    SelectSeq(RequiredColumns, LAMBDA c : c \notin frame.columns)

(* Lines 138-161: validate_dataframe from its first line. *)
validate_frame(frame) ==
    IF MissingColumns(frame) # <<>>
    THEN [raised |-> "", errors |-> <<<<"missing columns">> \o MissingColumns(frame)>>]
    ELSE validate_dataframe(frame.rows)

(* The df after a validate_dataframe that drops the first row it read. *)
FrameAfterValidateMutant(frame) ==
    IF frame.rows = <<>> THEN frame ELSE [frame EXCEPT !.rows = Tail(@)]

(* The df after validate_dataframe: select, is_duplicated and iter_rows    *)
(* read df and write nothing to it.                                        *)
FrameAfterValidate(frame) == [columns |-> frame.columns, rows |-> frame.rows]

----------------------------------------------------------------------------
(* fetch_single_symbol *)

Requests == SelectSeq(trace, LAMBDA e : e.ev = "request")
Backoffs == SelectSeq(trace, LAMBDA e : e.ev = "sleep")

(* Lines 57-69 without the call of validate_symbol. *)
EnterFetchSingleMutant(s) ==
    /\ symbol' = s
    /\ calls' = calls + 1
    /\ trace' = <<>>
    /\ fetched0' = symbols_fetched
    /\ failed0' = symbols_failed
    /\ attempt' = 0
    /\ fs_result' = <<>>
    /\ fs_exc' = ""
    /\ pc' = IF 0 \in AttemptRange THEN "requesting" ELSE "returned"
    /\ UNCHANGED <<symbols_fetched, symbols_failed>>

(* Lines 57-69: validate the symbol and enter the attempt loop. *)
EnterFetchSingle(s) ==
    /\ symbol' = s
    /\ calls' = calls + 1
    /\ trace' = <<>>
    /\ fetched0' = symbols_fetched
    /\ failed0' = symbols_failed
    /\ attempt' = 0
    /\ fs_result' = <<>>
    /\ UNCHANGED <<symbols_fetched, symbols_failed>>
    /\ IF ~validate_symbol(s)
       THEN pc' = "raised" /\ fs_exc' = "ValidationError"
       ELSE /\ fs_exc' = ""
            /\ pc' = IF 0 \in AttemptRange THEN "requesting" ELSE "returned"

(* The end of one loop iteration that neither returned nor raised: the     *)
(* next attempt of range(max_retries), or line 169 when it is exhausted.   *)
NextIteration ==
    /\ attempt' = attempt + 1
    /\ pc' = IF attempt + 1 \in AttemptRange THEN "requesting" ELSE "returned"
    /\ fs_result' = <<>>
    /\ fs_exc' = ""

(* Lines 119-167 with the empty response handled as a failed attempt. *)
OnEmptyMutant(resp) ==
    /\ UNCHANGED <<symbols_fetched, fetchlog>>
    /\ IF NotLastAttempt(attempt)
       THEN /\ trace' = trace \o <<ReqEvent(resp), SleepEvent(BackoffDelay(attempt))>>
            /\ NextIteration
            /\ UNCHANGED symbols_failed
       ELSE /\ trace' = Append(trace, ReqEvent(resp))
            /\ symbols_failed' = symbols_failed + 1
            /\ pc' = "returned"
            /\ fs_result' = <<>>
            /\ UNCHANGED <<attempt, fs_exc>>

(* Lines 92-95: an empty response. *)
OnEmpty(resp) ==
    /\ trace' = Append(trace, ReqEvent(resp))
    /\ symbols_failed' = symbols_failed + 1
    /\ pc' = "returned"
    /\ fs_result' = <<>>
    /\ UNCHANGED <<symbols_fetched, attempt, fs_exc, fetchlog>>

(* Lines 97-117: a non-empty response. *)
OnData(resp) ==
    /\ trace' = Append(trace, ReqEvent(resp))
    /\ symbols_fetched' = symbols_fetched + 1
    /\ pc' = "returned"
    /\ fs_result' = <<Observation(symbol, resp.bar)>>
    /\ fetchlog' = Append(fetchlog, <<i, Observation(symbol, resp.bar)>>)
    /\ UNCHANGED <<symbols_failed, attempt, fs_exc>>

(* Lines 123-145 with the last attempt's failure swallowed. *)
OnRateLimitMutant(resp) ==
    /\ UNCHANGED <<symbols_fetched, fetchlog>>
    /\ IF NotLastAttempt(attempt)
       THEN /\ trace' = trace \o <<ReqEvent(resp), SleepEvent(BackoffDelay(attempt))>>
            /\ NextIteration
            /\ UNCHANGED symbols_failed
       ELSE /\ trace' = Append(trace, ReqEvent(resp))
            /\ symbols_failed' = symbols_failed + 1
            /\ pc' = "returned"
            /\ fs_result' = <<>>
            /\ UNCHANGED <<attempt, fs_exc>>

(* Lines 123-145: an exception whose text names rate limiting. *)
OnRateLimit(resp) ==
    /\ UNCHANGED <<symbols_fetched, fetchlog>>
    /\ IF NotLastAttempt(attempt)
       THEN /\ trace' = trace \o <<ReqEvent(resp), SleepEvent(BackoffDelay(attempt))>>
            /\ NextIteration
            /\ UNCHANGED symbols_failed
       ELSE /\ trace' = Append(trace, ReqEvent(resp))
            /\ symbols_failed' = symbols_failed + 1
            /\ pc' = "raised"
            /\ fs_exc' = "RateLimitError"
            /\ UNCHANGED <<attempt, fs_result>>

(* Lines 147-167 with the last attempt's failure raised. *)
OnOtherErrorMutant(resp) ==
    /\ UNCHANGED <<symbols_fetched, fetchlog>>
    /\ IF NotLastAttempt(attempt)
       THEN /\ trace' = trace \o <<ReqEvent(resp), SleepEvent(BackoffDelay(attempt))>>
            /\ NextIteration
            /\ UNCHANGED symbols_failed
       ELSE /\ trace' = Append(trace, ReqEvent(resp))
            /\ symbols_failed' = symbols_failed + 1
            /\ pc' = "raised"
            /\ fs_exc' = "DataFetchError"
            /\ UNCHANGED <<attempt, fs_result>>

(* Lines 147-167: any other exception. *)
OnOtherError(resp) ==
    /\ UNCHANGED <<symbols_fetched, fetchlog>>
    /\ IF NotLastAttempt(attempt)
       THEN /\ trace' = trace \o <<ReqEvent(resp), SleepEvent(BackoffDelay(attempt))>>
            /\ NextIteration
            /\ UNCHANGED symbols_failed
       ELSE /\ trace' = Append(trace, ReqEvent(resp))
            /\ symbols_failed' = symbols_failed + 1
            /\ pc' = "returned"
            /\ fs_result' = <<>>
            /\ UNCHANGED <<attempt, fs_exc>>

(* Lines 69-167: one iteration of the attempt loop, with the response the  *)
(* remote source gives to its request.                                     *)
Attempt ==
    /\ pc = "requesting"
    /\ \E resp \in Responses :
          CASE resp.kind = "empty" -> OnEmpty(resp)
            [] resp.kind = "data" -> OnData(resp)
            [] resp.kind = "exception" /\ IsRateLimit(resp.msg) -> OnRateLimit(resp)
            [] OTHER -> OnOtherError(resp)
    /\ UNCHANGED <<fetcherVars, batchVars, validatorVars, outerVars, symbol, fetched0, failed0, calls>>

(* A client's call of fetch_single_symbol on the Fetcher. *)
FetchSingleSymbol ==
    /\ pc \in {"idle", "returned", "raised"}
    /\ calls < MaxCalls
    /\ \E s \in WellFormedPool \cup MalformedPool : EnterFetchSingle(s)
    /\ UNCHANGED <<fetcherVars, batchVars, validatorVars, outerVars, fetchlog>>

----------------------------------------------------------------------------
(* fetch_multiple_symbols *)

(* Line 189: the call of fetch_single_symbol for symbols[i]; an exception  *)
(* it raises leaves fetch_multiple_symbols, which catches nothing.         *)
LoopCall ==
    /\ pc = "loop"
    /\ i < Len(symbols)
    /\ EnterFetchSingle(symbols[i + 1])
    /\ UNCHANGED <<fetcherVars, batchVars, validatorVars, outerVars, fetchlog>>

(* Line 189 with the exception of fetch_single_symbol swallowed: the loop  *)
(* goes on to the next symbol.                                             *)
RaiseMutant ==
    /\ pc = "raised"
    /\ pc' = "loop"
    /\ i' = i + 1
    /\ UNCHANGED <<fetcherVars, validatorVars, outerVars, symbols_fetched, symbols_failed, symbol,
                   attempt, fs_result, fs_exc, trace, fetched0, failed0, calls,
                   symbols, results, fetchlog, paces, outcome, df, attempted>>

(* Line 189: fetch_multiple_symbols has no handler, so the exception       *)
(* fetch_single_symbol raised ends the call.                               *)
Raise ==
    /\ pc = "raised"
    /\ pc' = "aborted"
    /\ outcome' = fs_exc
    /\ UNCHANGED <<fetcherVars, validatorVars, outerVars, symbols_fetched, symbols_failed, symbol,
                   attempt, fs_result, fs_exc, trace, fetched0, failed0, calls,
                   symbols, i, results, fetchlog, paces, df, attempted>>

(* i < len(symbols) - 1 *)
PaceAfterEarly(k) == k < Len(symbols) - 2
PaceAfterMutant(k) == k < Len(symbols)
PaceAfter(k) == k < Len(symbols) - 1

(* results.append(result) *)
Collect(rs, r) == rs \o r

(* Lines 191-200: keep the result, pace, and go to the next symbol. *)
AfterFetch ==
    /\ pc = "returned"
    /\ results' = IF fs_result # <<>> THEN Collect(results, fs_result) ELSE results
    /\ paces' = IF PaceAfter(i)
                THEN Append(paces, [after |-> i, delay |-> rate_limit_delay])
                ELSE paces
    /\ i' = i + 1
    /\ pc' = "loop"
    /\ UNCHANGED <<fetcherVars, validatorVars, outerVars, symbols_fetched, symbols_failed, symbol, attempt,
                   fs_result, fs_exc, trace, fetched0, failed0, calls, symbols,
                   fetchlog, outcome, df, attempted>>

(* "symbols_attempted": len(symbols) *)
SymbolsAttemptedMutant == Len(results)
SymbolsAttempted == Len(symbols)

(* Lines 202-230: the end of the loop. *)
Finish ==
    /\ pc = "loop"
    /\ i >= Len(symbols)
    /\ pc' = "done"
    /\ IF results = <<>>
       THEN outcome' = "DataFetchError" /\ attempted' = SymbolsAttempted /\ df' = <<>>
       ELSE IF validate_dataframe(results).raised # ""
       THEN outcome' = validate_dataframe(results).raised /\ UNCHANGED <<attempted, df>>
       ELSE outcome' = "returned" /\ df' = results /\ UNCHANGED attempted
    /\ UNCHANGED <<fetcherVars, validatorVars, outerVars, symbols_fetched, symbols_failed, symbol, attempt,
                   fs_result, fs_exc, trace, fetched0, failed0, calls, symbols, i,
                   results, fetchlog, paces>>

----------------------------------------------------------------------------
(* Specifications *)

RECURSIVE SeqsUpTo(_, _)
SeqsUpTo(S, n) ==
    IF n = 0 THEN {<<>>}
    ELSE SeqsUpTo(S, n - 1)
         \cup {Append(q, x) : q \in {r \in SeqsUpTo(S, n - 1) : Len(r) = n - 1}, x \in S}

InitFetcher ==
    /\ retry_delay \in RetryDelays
    /\ rate_limit_delay = DefaultRateLimitDelay
    /\ symbols_fetched = 0
    /\ symbols_failed = 0
    /\ symbol = <<>>
    /\ attempt = 0
    /\ fs_result = <<>>
    /\ fs_exc = ""
    /\ trace = <<>>
    /\ fetched0 = 0
    /\ failed0 = 0
    /\ calls = 0
    /\ i = 0
    /\ results = <<>>
    /\ fetchlog = <<>>
    /\ paces = <<>>
    /\ outcome = "running"
    /\ df = <<>>
    /\ attempted = -1

(* No handler, second Fetcher or splitter is there.  The host has silenced *)
(* logging (logging.disable): the logger get_logger builds is a            *)
(* logging.Logger, whose info, warning, error and critical raise TypeError *)
(* on the keyword context the modules pass whenever the call's level is    *)
(* enabled.                                                                *)
InitNoHandler ==
    /\ hpc = "none"
    /\ status = 0
    /\ uploads = 0
    /\ herror = ""
    /\ log_level = "OFF"

InitNoOther ==
    /\ other = <<>>
    /\ cur = 1

InitNoSplit ==
    /\ sp_symbols = <<>>
    /\ sp_size = 1
    /\ sp_out = <<>>

InitOuter == InitNoHandler /\ InitNoOther /\ InitNoSplit

(* No validator is under call. *)
InitNoValidator ==
    /\ vdate = [kind |-> "date", date |-> MinDate, text |-> <<>>]
    /\ today = MinDate
    /\ date_out = [raised |-> "", value |-> MinDate]
    /\ vframe = [columns |-> {}, rows |-> <<>>]
    /\ frame_outs = <<>>
    /\ vop = "none"
    /\ vrow = ValidRow
    /\ vsym = <<>>
    /\ vdone = FALSE
    /\ row_out = [raised |-> "", errors |-> <<>>]
    /\ sym_out = "pending"

InitSingle ==
    /\ InitFetcher
    /\ InitOuter
    /\ InitNoValidator
    /\ max_retries \in 0..MaxRetries
    /\ symbols = <<>>
    /\ pc = "idle"

Init ==
    /\ InitFetcher
    /\ InitOuter
    /\ InitNoValidator
    /\ max_retries \in 0..MaxBatchRetries
    /\ symbols \in SeqsUpTo(BatchPool, MaxSymbols)
    /\ pc = "loop"

NextSingle == FetchSingleSymbol \/ Attempt

Next == LoopCall \/ Attempt \/ AfterFetch \/ Raise \/ Finish

(* The inputs of the validators. *)
MaxPrice == 3
MaxSymLen == 6

FieldValues == (-1..MaxPrice) \cup {NaN, PosInf, NegInf}
FieldSet == {RequiredFields[k] : k \in 1..Len(RequiredFields)}
Rows == UNION {[D -> FieldValues] : D \in SUBSET FieldSet}

SymbolAlphabet == {"A", "9", "b", ".", Newline}
SymbolInputs == SeqsUpTo(SymbolAlphabet, MaxSymLen)

Years == {1989, 1990, 2024, 2025}
DateObjects == [y : Years, m : {1, 12}, d : {1, 31}]
Todays == {dt \in DateObjects : dt.y >= 2024}
DateTexts ==
    {isoformat(dt) : dt \in [y : Years, m : {1, 2, 12, 13}, d : {1, 31}]}
        \cup {<<"b", "h", "p">>}
DateInputs ==
    [kind : {"date"}, date : DateObjects, text : {<<>>}]
        \cup [kind : {"str"}, date : {MinDate}, text : DateTexts]

MaxFrameRows == 3
MaxValidateCalls == 2

AllColumns == DOMAIN Observation(SymA, GoodBar)
ColumnSets == {AllColumns, AllColumns \ {"volume"}, AllColumns \ {"symbol", "date"}}
FrameRowPool == {Observation(s, b) : s \in WellFormedPool, b \in Bars}
Restrict(row, cols) == [c \in cols |-> row[c]]
Frames ==
    {[columns |-> cols, rows |-> [k \in 1..Len(q) |-> Restrict(q[k], cols)]] :
        cols \in ColumnSets, q \in SeqsUpTo(FrameRowPool, MaxFrameRows)}

(* A caller of validators.py with one argument. *)
InitValidators ==
    /\ retry_delay = DefaultRetryDelay
    /\ rate_limit_delay = DefaultRateLimitDelay
    /\ max_retries = 0
    /\ symbols_fetched = 0
    /\ symbols_failed = 0
    /\ symbol = <<>>
    /\ attempt = 0
    /\ fs_result = <<>>
    /\ fs_exc = ""
    /\ trace = <<>>
    /\ fetched0 = 0
    /\ failed0 = 0
    /\ calls = 0
    /\ symbols = <<>>
    /\ i = 0
    /\ results = <<>>
    /\ fetchlog = <<>>
    /\ paces = <<>>
    /\ outcome = "running"
    /\ df = <<>>
    /\ attempted = -1
    /\ pc = "validators"
    /\ InitOuter
    /\ vdone = FALSE
    /\ row_out = [raised |-> "", errors |-> <<>>]
    /\ sym_out = "pending"
    /\ date_out = [raised |-> "", value |-> MinDate]
    /\ frame_outs = <<>>
    /\ \/ /\ vop = "row" /\ vrow \in Rows /\ vsym = <<>>
          /\ vdate = [kind |-> "date", date |-> MinDate, text |-> <<>>]
          /\ today = MinDate
          /\ vframe = [columns |-> {}, rows |-> <<>>]
       \/ /\ vop = "symbol" /\ vsym \in SymbolInputs /\ vrow = ValidRow
          /\ vdate = [kind |-> "date", date |-> MinDate, text |-> <<>>]
          /\ today = MinDate
          /\ vframe = [columns |-> {}, rows |-> <<>>]
       \/ /\ vop = "date" /\ vdate \in DateInputs /\ today \in Todays
          /\ vrow = ValidRow /\ vsym = <<>>
          /\ vframe = [columns |-> {}, rows |-> <<>>]
       \/ /\ vop = "frame" /\ vframe \in Frames
          /\ vrow = ValidRow /\ vsym = <<>>
          /\ vdate = [kind |-> "date", date |-> MinDate, text |-> <<>>]
          /\ today = MinDate

(* validate_ohlcv_row(row) *)
CallValidateOhlcvRow ==
    /\ vop = "row"
    /\ ~vdone
    /\ vdone' = TRUE
    /\ row_out' = validate_ohlcv_row(vrow)
    /\ UNCHANGED <<fetcherVars, batchVars, symbols_fetched, symbols_failed, pc,
                   symbol, attempt, fs_result, fs_exc, trace, fetched0, failed0,
                   calls, fetchlog, vop, vrow, vsym, sym_out, dateVars, frameVars,
                   outerVars>>

(* validate_symbol(symbol) *)
CallValidateSymbol ==
    /\ vop = "symbol"
    /\ ~vdone
    /\ vdone' = TRUE
    /\ sym_out' = IF validate_symbol(vsym) THEN "returned" ELSE "ValidationError"
    /\ UNCHANGED <<fetcherVars, batchVars, symbols_fetched, symbols_failed, pc,
                   symbol, attempt, fs_result, fs_exc, trace, fetched0, failed0,
                   calls, fetchlog, vop, vrow, vsym, row_out, dateVars, frameVars,
                   outerVars>>

(* validate_date(date_value) *)
CallValidateDate ==
    /\ vop = "date"
    /\ ~vdone
    /\ vdone' = TRUE
    /\ date_out' = validate_date(vdate, today)
    /\ UNCHANGED <<fetcherVars, batchVars, symbols_fetched, symbols_failed, pc,
                   symbol, attempt, fs_result, fs_exc, trace, fetched0, failed0,
                   calls, fetchlog, vop, vrow, vsym, row_out, sym_out, vdate, today,
                   frameVars, outerVars>>

(* validate_dataframe(df), called again and again on the same df. *)
CallValidateDataframe ==
    /\ vop = "frame"
    /\ Len(frame_outs) < MaxValidateCalls
    /\ frame_outs' = Append(frame_outs, [df |-> vframe, out |-> validate_frame(vframe)])
    /\ vframe' = FrameAfterValidate(vframe)
    /\ UNCHANGED <<fetcherVars, batchVars, symbols_fetched, symbols_failed, pc,
                   symbol, attempt, fs_result, fs_exc, trace, fetched0, failed0,
                   calls, fetchlog, vop, vrow, vsym, vdone, row_out, sym_out,
                   dateVars, outerVars>>

NextValidators ==
    CallValidateOhlcvRow \/ CallValidateSymbol \/ CallValidateDate \/ CallValidateDataframe

SpecValidators == InitValidators /\ [][NextValidators]_vars

SpecSingle == InitSingle /\ [][NextSingle]_vars

Spec == Init /\ [][Next]_vars

----------------------------------------------------------------------------
(* Properties of one fetch_single_symbol call, checked under SpecSingle.   *)
(* The trace is that of the latest call: it is emptied when a call begins. *)

NReq == Len(Requests)

RateLimited(e) == e.kind = "exception" /\ IsRateLimit(e.msg)
OtherFailed(e) == e.kind = "exception" /\ ~IsRateLimit(e.msg)

(* The latest call passed validate_symbol. *)
Started == calls > 0 /\ fs_exc # "ValidationError"

RECURSIVE SumDelays(_)
SumDelays(q) == IF q = <<>> THEN 0 ELSE Head(q).delay + SumDelays(Tail(q))

(* The zero-based attempt index of the request at position p of the trace. *)
AttemptIndexAt(p) ==
    Cardinality({q \in 1..p : trace[q].ev = "request"}) - 1

----------------------------------------------------------------------------
(* Properties of one fetch_multiple_symbols call, checked under Spec.      *)
(* pc = "done" says the loop went through every symbol; pc = "raised" in   *)
(* this specification says fetch_single_symbol's exception left the call.  *)

AllWellFormed == \A k \in 1..Len(symbols) : WellFormed(symbols[k])

(* The observations fetched, in the order they were fetched. *)
FetchedRows == [k \in 1..Len(fetchlog) |-> fetchlog[k][2]]

InInputOrder ==
    /\ \A k \in 1..Len(fetchlog) :
          /\ fetchlog[k][1] \in 0..(Len(symbols) - 1)
          /\ fetchlog[k][2].symbol = symbols[fetchlog[k][1] + 1]
    /\ \A j, k \in 1..Len(fetchlog) : j < k => fetchlog[j][1] < fetchlog[k][1]

(* C8 as stated: over well-formed symbols, with no rate-limit exhaustion   *)
(* and at least one observation, fetch_multiple_symbols returns without    *)
(* raising and its batch holds exactly the observations of the symbols     *)
(* that succeeded, in input order.                                         *)
C8_Original ==
    (/\ pc = "done"
     /\ AllWellFormed
     /\ fetchlog # <<>>)
    => /\ outcome = "returned"
       /\ df = FetchedRows
       /\ InInputOrder

(* What holds of the code: the same, for the calls in which                *)
(* validate_dataframe returns.                                             *)
PartialBatchWhenValidationReturns ==
    (/\ pc = "done"
     /\ AllWellFormed
     /\ fetchlog # <<>>
     /\ \A k \in 1..Len(fetchlog) : fetchlog[k][2].open # 0)
    => /\ outcome = "returned"
       /\ df = FetchedRows
       /\ InInputOrder

(* The main statement of C9: DataFetchError is raised exactly when every   *)
(* symbol was processed and none produced an observation; it then carries  *)
(* symbols_attempted = len(symbols) and no batch is returned.              *)
TotalFailure ==
    /\ outcome = "DataFetchError" <=> (pc = "done" /\ fetchlog = <<>>)
    /\ outcome = "DataFetchError" => (attempted = Len(symbols) /\ df = <<>>)
    /\ outcome # "DataFetchError" => attempted = -1

PacesUpTo(m) ==
    IF m <= 0 THEN <<>>
    ELSE [k \in 1..m |-> [after |-> k - 1, delay |-> rate_limit_delay]]

Min(a, b) == IF a < b THEN a ELSE b

----------------------------------------------------------------------------
(* Malformed symbols, validation findings, counters and identity.          *)

(* C11 as stated: a malformed symbol in the list given to                  *)
(* fetch_multiple_symbols does not end the call: the call never stops at   *)
(* that symbol with its ValidationError.                                   *)
C11_Original ==
    \A k \in 1..Len(symbols) :
        ~validate_symbol(symbols[k])
        => ~(pc = "raised" /\ fs_exc = "ValidationError" /\ i = k - 1)

(* C12: fetch_single_symbol called with a symbol that fails                *)
(* validate_symbol raises ValidationError at once: no remote request, no   *)
(* sleep, no retry, no result, and neither counter moves.                  *)
C12_InvalidSymbolAborts ==
    (calls > 0 /\ ~validate_symbol(symbol))
    => /\ pc = "raised"
       /\ fs_exc = "ValidationError"
       /\ trace = <<>>
       /\ attempt = 0
       /\ fs_result = <<>>
       /\ symbols_fetched = fetched0
       /\ symbols_failed = failed0

C12_Witness ==
    /\ calls = 2
    /\ symbol = SymLower
    /\ max_retries = 3
    /\ symbols_fetched = 1
    /\ fs_exc = "ValidationError"

(* C13 as stated: whenever at least one symbol was fetched,                *)
(* fetch_multiple_symbols returns a batch holding every fetched            *)
(* observation, whatever its values, and raises nothing because of what    *)
(* validation finds.                                                       *)
C13_Original ==
    (pc = "done" /\ Len(fetchlog) >= 1)
    => /\ outcome \notin {"ZeroDivisionError"}
       /\ outcome = "returned"
       /\ Len(df) = Len(fetchlog)
       /\ \A k \in 1..Len(fetchlog) : df[k] = fetchlog[k][2]

(* C14 as stated: on one Fetcher, for every max_retries >= 0, each         *)
(* fetch_single_symbol call adds exactly 1 to exactly one counter:         *)
(* symbols_fetched on success, symbols_failed on every other outcome; so   *)
(* the two counters add up to the number of calls made.                    *)
C14_Original ==
    /\ pc \in {"returned", "raised"}
       => /\ symbols_fetched + symbols_failed = calls
          /\ IF fs_result # <<>>
             THEN symbols_fetched = fetched0 + 1 /\ symbols_failed = failed0
             ELSE symbols_fetched = fetched0 /\ symbols_failed = failed0 + 1
    /\ pc = "requesting"
       => /\ symbols_fetched + symbols_failed = calls - 1
          /\ symbols_fetched = fetched0
          /\ symbols_failed = failed0

(* C15 as stated: in every batch fetch_multiple_symbols returns, also for  *)
(* a list that repeats a symbol, the (symbol, date) pairs of the           *)
(* observations are pairwise distinct.                                     *)
C15_Original ==
    outcome = "returned"
    => \A j, k \in 1..Len(df) :
           j # k => <<df[j].symbol, df[j].date>> # <<df[k].symbol, df[k].date>>

----------------------------------------------------------------------------
(* Properties of the validators, checked under SpecValidators.             *)

RowCalled == vop = "row" /\ vdone
FullRow == DOMAIN vrow = FieldSet
Reported(e) == \E k \in 1..Len(row_out.errors) : row_out.errors[k] = e
Finite(v) == v # NaN /\ v # PosInf /\ v # NegInf

(* C16 as stated: validate_ohlcv_row never raises: for every row whose     *)
(* present fields are numbers, zero and negative prices included, it       *)
(* returns a sequence of errors.                                           *)
C16_Original == RowCalled => row_out.raised = ""

(* Every rule of the spec holds of the row. *)
AllRules(r) ==
    /\ \A f \in FieldSet : Finite(r[f])
    /\ r["open"] > 0 /\ r["high"] > 0 /\ r["low"] > 0 /\ r["close"] > 0
    /\ r["volume"] >= 0
    /\ r["high"] >= r["low"] /\ r["high"] >= r["open"] /\ r["high"] >= r["close"]
    /\ r["low"] <= r["open"] /\ r["low"] <= r["close"]
    /\ 2 * Abs(r["close"] - r["open"]) <= r["open"]

(* C17: for a row holding all five required fields, validate_ohlcv_row     *)
(* returns the empty sequence if and only if open, high, low, close > 0,   *)
(* volume >= 0, high >= low, open, close, low <= open, close,              *)
(* |close - open| / open <= 0.5 and every field is finite.                 *)
C17_EmptyIffAllRules ==
    (RowCalled /\ FullRow)
    => ((row_out.raised = "" /\ row_out.errors = <<>>) <=> AllRules(vrow))

C17_Witness ==
    /\ RowCalled
    /\ vrow = [open |-> 2, high |-> 3, low |-> 2, close |-> 3, volume |-> 0]
    /\ row_out = [raised |-> "", errors |-> <<>>]

(* C18 as stated, over the rows whose five fields are finite: each of the  *)
(* relations high >= low, high >= open, high >= close, low <= open,        *)
(* low <= close yields its own error exactly when it is violated,          *)
(* whatever the other relations and the positivity checks find.            *)
C18_Original ==
    (RowCalled /\ FullRow /\ \A f \in FieldSet : Finite(vrow[f]))
    => /\ Reported(<<"order", "high", "low">>) <=> vrow["high"] < vrow["low"]
       /\ Reported(<<"order", "high", "open">>) <=> vrow["high"] < vrow["open"]
       /\ Reported(<<"order", "high", "close">>) <=> vrow["high"] < vrow["close"]
       /\ Reported(<<"order", "low", "open">>) <=> vrow["low"] > vrow["open"]
       /\ Reported(<<"order", "low", "close">>) <=> vrow["low"] > vrow["close"]

(* What holds of the code: the same, for the rows whose open is not 0.     *)
OrderErrorsWhenOpenNonZero ==
    (RowCalled /\ FullRow /\ vrow["open"] # 0 /\ \A f \in FieldSet : Finite(vrow[f]))
    => /\ Reported(<<"order", "high", "low">>) <=> vrow["high"] < vrow["low"]
       /\ Reported(<<"order", "high", "open">>) <=> vrow["high"] < vrow["open"]
       /\ Reported(<<"order", "high", "close">>) <=> vrow["high"] < vrow["close"]
       /\ Reported(<<"order", "low", "open">>) <=> vrow["low"] > vrow["open"]
       /\ Reported(<<"order", "low", "close">>) <=> vrow["low"] > vrow["close"]

(* C19: for a row missing one or more of the five required fields,         *)
(* validate_ohlcv_row returns a non-empty result made only of              *)
(* missing-field errors, each naming a field the row lacks, whatever the   *)
(* fields that are present hold.                                           *)
C19_MissingFieldsOnly ==
    (RowCalled /\ ~FullRow)
    => /\ row_out.raised = ""
       /\ Len(row_out.errors) >= 1
       /\ \A k \in 1..Len(row_out.errors) :
             /\ row_out.errors[k][1] = "missing"
             /\ row_out.errors[k][2] \in FieldSet \ DOMAIN vrow

C19_Witness ==
    /\ RowCalled
    /\ DOMAIN vrow = {"open", "high", "volume"}
    /\ vrow["open"] = 0
    /\ vrow["high"] = -1
    /\ vrow["volume"] = NaN
    /\ row_out.errors = <<<<"missing", "low">>>>

(* C20 as stated: validate_symbol succeeds exactly for the strings of 1    *)
(* to 5 characters, each an uppercase ASCII letter or a digit, and raises  *)
(* ValidationError for every other string.                                 *)
C20_Original ==
    (vop = "symbol" /\ vdone)
    => /\ sym_out \in {"returned", "ValidationError"}
       /\ sym_out = "returned"
          <=> /\ Len(vsym) \in 1..5
              /\ \A k \in 1..Len(vsym) : vsym[k] \in UpperChars \cup DigitChars

----------------------------------------------------------------------------
(* Exhaustion, propagation and spacing of requests.                        *)

C25_RateLimitPropagates ==
    /\ [](pc \in {"loop", "done"} => fs_exc = "")
    /\ []((pc = "raised" /\ fs_exc = "RateLimitError") => ENABLED Raise)
    /\ [](outcome = "RateLimitError"
          => /\ pc = "aborted"
             /\ i < Len(symbols)
             /\ symbol = symbols[i + 1]
             /\ NReq = max_retries
             /\ \A k \in 1..Len(paces) : paces[k].after < i
             /\ df = <<>>
             /\ attempted = -1
             /\ Len(results) = Len(fetchlog)
             /\ symbols_fetched = Len(fetchlog)
             /\ symbols_failed = failed0 + 1)
    /\ [][pc # "aborted"]_vars

C25_Witness ==
    /\ outcome = "RateLimitError"
    /\ Len(symbols) = 3
    /\ i = 1
    /\ max_retries = 2
    /\ symbols_fetched = 1
    /\ symbols_failed = 1
    /\ Len(paces) = 1

(* C26: within one fetch_multiple_symbols call no two remote requests are  *)
(* issued back to back: a backoff sleep lies between two requests of the   *)
(* same symbol, and the pacing sleep of rate_limit_delay that follows the  *)
(* previous symbol has been made before a symbol's first request.          *)
C26_RequestsSeparated ==
    /\ \A p \in 1..(Len(trace) - 1) :
          trace[p].ev = "request"
          => /\ trace[p + 1].ev = "sleep"
             /\ p + 2 <= Len(trace) => trace[p + 2].ev = "request"
    /\ (pc \in {"requesting", "returned", "raised"} /\ i > 0)
       => /\ paces # <<>>
          /\ paces[Len(paces)] = [after |-> i - 1, delay |-> rate_limit_delay]

C26_Witness ==
    /\ Len(symbols) = 2
    /\ max_retries = 2
    /\ i = 1
    /\ pc = "returned"
    /\ Len(trace) = 3
    /\ trace[1].ev = "request"
    /\ trace[2].ev = "sleep"
    /\ trace[3].ev = "request"
    /\ Len(paces) = 1
    /\ symbols_failed = 1

(* The text of a rate-limit-classified exception. *)
NamesRateLimit(e) == e.msg \in {"429 Too Many Requests", "Too Many Requests"}

----------------------------------------------------------------------------
(* Dates and frames, checked under SpecValidators.                         *)

(* The day count that orders dates. *)
DayKey(dt) == dt.y * 10000 + dt.m * 100 + dt.d

(* The date a validate_date argument denotes. *)
Denoted == IF vdate.kind = "str" THEN fromisoformat(vdate.text).date ELSE vdate.date
Denotes == vdate.kind = "date" \/ fromisoformat(vdate.text).ok

(* C21: validate_date raises ValidationError for every date strictly after *)
(* today and for every date strictly before 1990-01-01; for every date d   *)
(* with 1990-01-01 <= d <= today, both bounds included, it returns d.      *)
C21_DateWindow ==
    (vop = "date" /\ vdone /\ Denotes)
    => IF DayKey(Denoted) > DayKey(today) \/ DayKey(Denoted) < 19900101
       THEN date_out.raised = "ValidationError"
       ELSE date_out = [raised |-> "", value |-> Denoted]

C21_Witness ==
    /\ vop = "date"
    /\ vdone
    /\ vdate.kind = "date"
    /\ vdate.date = today
    /\ today = [y |-> 2024, m |-> 12, d |-> 31]
    /\ date_out = [raised |-> "", value |-> today]

FrameCalled == vop = "frame" /\ frame_outs # <<>>
FirstOut == frame_outs[1].out
FullFrame == MissingColumns(frame_outs[1].df) = <<>> /\ frame_outs[1].df.rows # <<>>

(* The rows whose (symbol, date) pair another row of the frame has too. *)
SharedPairRows(rows) ==
    {k \in 1..Len(rows) :
        \E j \in 1..Len(rows) :
            j # k /\ <<rows[j].symbol, rows[j].date>> = <<rows[k].symbol, rows[k].date>>}

IsDuplicateError(e) == Len(e) = 2 /\ e[1] = "duplicates"
DuplicateErrors(errs) == {k \in 1..Len(errs) : IsDuplicateError(errs[k])}

(* C22 as stated: for a non-empty frame with every required column,        *)
(* validate_dataframe emits exactly one aggregate duplicate error when     *)
(* some (symbol, date) pair is in more than one row and none otherwise,    *)
(* and the number it reports counts the rows with a duplicated pair.        *)
C22_Original ==
    (FrameCalled /\ FullFrame)
    => LET rows == frame_outs[1].df.rows
           dups == DuplicateErrors(FirstOut.errors)
       IN /\ FirstOut.raised = ""
          /\ Cardinality(dups) = IF SharedPairRows(rows) # {} THEN 1 ELSE 0
          /\ \A k \in dups : FirstOut.errors[k][2] = Cardinality(SharedPairRows(rows))

(* What holds of the code: the same, for the frames with no open of 0.     *)
DuplicateErrorWhenOpenNonZero ==
    (FrameCalled /\ FullFrame
        /\ \A k \in 1..Len(frame_outs[1].df.rows) : frame_outs[1].df.rows[k].open # 0)
    => LET rows == frame_outs[1].df.rows
           dups == DuplicateErrors(FirstOut.errors)
       IN /\ FirstOut.raised = ""
          /\ Cardinality(dups) = IF SharedPairRows(rows) # {} THEN 1 ELSE 0
          /\ \A k \in dups : FirstOut.errors[k][2] = Cardinality(SharedPairRows(rows))

----------------------------------------------------------------------------
(* split_into_batches (modules/asx_symbol_updater/handler.py), checked     *)
(* under SpecSplit.  Its logger is loguru's, which takes keyword context.  *)

MaxSplitLen == 4
MaxBatchSize == 3

(* range(a, n, step) *)
RECURSIVE RangeFrom(_, _, _)
RangeFrom(a, n, step) ==
    IF a >= n THEN <<>> ELSE <<a>> \o RangeFrom(a + step, n, step)

(* A slice that starts one element early. *)
SliceMutant(q, a, b) == SubSeq(q, IF a = 0 THEN 1 ELSE a, Min(b, Len(q)))

(* q[a:b] for 0 <= a <= b: the end is clamped to len(q). *)
Slice(q, a, b) == SubSeq(q, a + 1, Min(b, Len(q)))

(* Lines 421-435: one batch per i of range(0, len(symbols), batch_size). *)
split_into_batches(syms, batch_size) ==
    LET starts == RangeFrom(0, Len(syms), batch_size)
    IN  [k \in 1..Len(starts) |->
            [symbols |-> Slice(syms, starts[k], starts[k] + batch_size),
             batchNumber |-> starts[k] \div batch_size]]

InitSplit ==
    /\ InitFetcher
    /\ InitNoValidator
    /\ InitNoHandler
    /\ InitNoOther
    /\ max_retries = 0
    /\ symbols = <<>>
    /\ sp_symbols \in SeqsUpTo(BatchPool, MaxSplitLen)
    /\ sp_size \in 1..MaxBatchSize
    /\ sp_out = <<>>
    /\ pc = "split"

(* split_into_batches(symbols, batch_size) *)
CallSplit ==
    /\ pc = "split"
    /\ sp_out' = split_into_batches(sp_symbols, sp_size)
    /\ pc' = "split_done"
    /\ UNCHANGED <<fetcherVars, batchVars, validatorVars, handlerVars, instanceVars,
                   symbols_fetched, symbols_failed, symbol, attempt, fs_result,
                   fs_exc, trace, fetched0, failed0, calls, fetchlog,
                   sp_symbols, sp_size>>

NextSplit == CallSplit

SpecSplit == InitSplit /\ [][NextSplit]_vars

(* The symbol lists of the batches, one after the other. *)
RECURSIVE Concatenated(_)
Concatenated(batches) ==
    IF batches = <<>> THEN <<>>
    ELSE Head(batches).symbols \o Concatenated(Tail(batches))

(* C29: split_into_batches(symbols, batch_size) with batch_size >= 1       *)
(* partitions its input: the batches' symbol lists concatenated in         *)
(* batchNumber order are the input list, batchNumbers are 0, 1, 2, ...     *)
(* without gaps, every batch but the last holds exactly batch_size         *)
(* symbols, the last holds between 1 and batch_size, and an empty input    *)
(* yields no batch.                                                        *)
C29_Partition ==
    pc = "split_done" =>
        /\ Concatenated(sp_out) = sp_symbols
        /\ \A k \in 1..Len(sp_out) :
              /\ sp_out[k].batchNumber = k - 1
              /\ k < Len(sp_out) => Len(sp_out[k].symbols) = sp_size
              /\ Len(sp_out[k].symbols) \in 1..sp_size
        /\ sp_symbols = <<>> => sp_out = <<>>

C29_Witness ==
    /\ pc = "split_done"
    /\ Len(sp_symbols) = MaxSplitLen
    /\ sp_size = MaxBatchSize
    /\ Len(sp_out) = 2
    /\ Len(sp_out[2].symbols) = 1

----------------------------------------------------------------------------
(* lambda_handler (modules/stock_data_fetcher/handler.py), checked under   *)
(* SpecHandler.                                                            *)

callVars == <<symbols_fetched, symbols_failed, symbol, attempt, fs_result, fs_exc,
              trace, fetched0, failed0, calls, fetchlog>>

(* The values LOG_LEVEL names; OFF stands for logging.disable by the host. *)
LogLevels == {"DEBUG", "INFO", "WARNING", "ERROR", "CRITICAL"}

(* The order of logging.DEBUG < INFO < WARNING < ERROR < CRITICAL. *)
LevelRank(l) ==
    CASE l = "DEBUG" -> 1
      [] l = "INFO" -> 2
      [] l = "WARNING" -> 3
      [] l = "ERROR" -> 4
      [] OTHER -> 5

(* handler.py's logger = get_logger(__name__, level=LOG_LEVEL): a call of  *)
(* level l is processed when l is at or above the logger's level.  Every   *)
(* processed call that passes keyword context raises TypeError, which      *)
(* logging.Logger._log does not accept.                                    *)
HandlerLogs(l) == log_level # "OFF" /\ LevelRank(log_level) <= LevelRank(l)

(* fetcher.py's logger = get_logger(__name__): level INFO, whatever        *)
(* LOG_LEVEL is, so its info, warning and error calls are processed.       *)
FetcherLogs == log_level # "OFF"

(* exceptions.py: the subclasses of StockStreamError. *)
StockStreamErrors ==
    {"ConfigurationError", "ValidationError", "RateLimitError", "StorageError",
     "DataFetchError", "DataQualityError"}

(* What lines 59-99 can do: go on, or raise ConfigurationError (no bucket, *)
(* no symbols file) or ValueError (int() of a setting, fromisoformat).     *)
ConfigOutcomes == {"ok", "ConfigurationError", "ValueError"}

InitHandler ==
    /\ InitFetcher
    /\ InitNoValidator
    /\ InitNoOther
    /\ InitNoSplit
    /\ max_retries \in 0..MaxBatchRetries
    /\ symbols \in SeqsUpTo(BatchPool, MaxSymbols)
    /\ pc = "idle"
    /\ hpc = "start"
    /\ status = 0
    /\ uploads = 0
    /\ herror = ""
    /\ log_level \in LogLevels \cup {"OFF"}

(* Lines 48-57, before the try: logger.info("Lambda execution started",    *)
(* request_id=..., batch_number=..., event=event).                         *)
HandlerStart ==
    /\ hpc = "start"
    /\ hpc' = IF HandlerLogs("INFO") THEN "raised" ELSE "config"
    /\ UNCHANGED <<fetcherVars, batchVars, validatorVars, instanceVars, splitVars,
                   callVars, pc, status, uploads, herror, log_level>>

(* Lines 59-106: Config(), the symbols, the date and the Fetcher, up to    *)
(* the call of fetch_multiple_symbols.                                     *)
LoadConfig ==
    /\ hpc = "config"
    /\ \E c \in ConfigOutcomes :
          IF c # "ok"
          THEN hpc' = "caught" /\ herror' = c /\ UNCHANGED pc
          ELSE IF HandlerLogs("INFO")
          THEN hpc' = "caught" /\ herror' = "TypeError" /\ UNCHANGED pc
          ELSE hpc' = "fetching" /\ pc' = "loop" /\ UNCHANGED herror
    /\ UNCHANGED <<fetcherVars, batchVars, validatorVars, instanceVars, splitVars,
                   callVars, status, uploads, log_level>>

(* fetcher.py lines 69-167 when the Fetcher's logger is silent. *)
HandlerAttempt == ~FetcherLogs /\ Attempt

(* fetcher.py lines 71-75 and 148-153: logger.info(..., symbol=, attempt=) *)
(* raises TypeError inside the try, the handler of Exception classifies it *)
(* as another error and its logger.error(..., symbol=, error=, attempt=)   *)
(* raises TypeError out of fetch_single_symbol: no request is made and no  *)
(* counter moves.                                                          *)
AttemptLogRaises ==
    /\ pc = "requesting"
    /\ FetcherLogs
    /\ pc' = "raised"
    /\ fs_exc' = "TypeError"
    /\ UNCHANGED <<fetcherVars, batchVars, validatorVars, outerVars,
                   symbols_fetched, symbols_failed, symbol, attempt, fs_result,
                   trace, fetched0, failed0, calls, fetchlog>>

(* Line 107: fetch_multiple_symbols raised. *)
FetchFailed ==
    /\ hpc = "fetching"
    /\ pc \in {"done", "aborted"}
    /\ outcome # "returned"
    /\ hpc' = "caught"
    /\ herror' = outcome
    /\ UNCHANGED <<fetcherVars, batchVars, validatorVars, instanceVars, splitVars,
                   callVars, pc, status, uploads, log_level>>

(* Lines 107-119 and storage.py lines 47-104: the fetch returned df and    *)
(* upload_dataframe(df, ...) returns the key or raises StorageError.       *)
Upload ==
    /\ hpc = "fetching"
    /\ pc = "done"
    /\ outcome = "returned"
    /\ uploads' = uploads + 1
    /\ \E stored \in BOOLEAN :
          IF stored /\ Len(df) > 0
          THEN hpc' = "uploaded" /\ UNCHANGED herror
          ELSE hpc' = "caught" /\ herror' = "StorageError"
    /\ UNCHANGED <<fetcherVars, batchVars, validatorVars, instanceVars, splitVars,
                   callVars, pc, status, log_level>>

(* Lines 121-157: the response of a run that uploaded. *)
RespondOk ==
    /\ hpc = "uploaded"
    /\ IF HandlerLogs("INFO")
       THEN hpc' = "caught" /\ herror' = "TypeError" /\ UNCHANGED status
       ELSE hpc' = "responded" /\ status' = 200 /\ UNCHANGED herror
    /\ UNCHANGED <<fetcherVars, batchVars, validatorVars, instanceVars, splitVars,
                   callVars, pc, uploads, log_level>>

(* Lines 159-199: except StockStreamError logs with logger.error, except   *)
(* Exception with logger.critical, both with keyword context, and then     *)
(* return statusCode 500.                                                  *)
RespondError ==
    /\ hpc = "caught"
    /\ IF HandlerLogs(IF herror \in StockStreamErrors THEN "ERROR" ELSE "CRITICAL")
       THEN hpc' = "raised" /\ UNCHANGED status
       ELSE hpc' = "responded" /\ status' = 500
    /\ UNCHANGED <<fetcherVars, batchVars, validatorVars, instanceVars, splitVars,
                   callVars, pc, uploads, herror, log_level>>

NextHandler ==
    \/ HandlerStart
    \/ LoadConfig
    \/ LoopCall
    \/ HandlerAttempt
    \/ AttemptLogRaises
    \/ AfterFetch
    \/ Raise
    \/ Finish
    \/ FetchFailed
    \/ Upload
    \/ RespondOk
    \/ RespondError

SpecHandler == InitHandler /\ [][NextHandler]_vars

(* The response rule of C28, for a handler that has not raised. *)
ResponseRule ==
    /\ hpc = "responded" =>
          /\ status \in {200, 500}
          /\ status = 200 <=> (outcome = "returned" /\ uploads = 1 /\ herror = "")
    /\ uploads > 0 => outcome = "returned"
    /\ uploads <= 1

(* C28 as stated: lambda_handler returns statusCode 200 if and only if     *)
(* fetch_multiple_symbols returned a batch and the upload of that batch    *)
(* succeeded; after any configuration, validation, rate-limit,             *)
(* total-failure, storage or unexpected error it returns statusCode 500    *)
(* without raising; and no upload is attempted unless the fetch returned a *)
(* batch.                                                                  *)
C28_Original == hpc # "raised" /\ ResponseRule

(* What holds of the code: the response rule, in every environment; and no *)
(* exception leaves lambda_handler when the host has silenced logging.     *)
ResponseWhenLoggingSilent ==
    /\ ResponseRule
    /\ log_level = "OFF" => hpc # "raised"

----------------------------------------------------------------------------
(* Two Fetchers, checked under SpecTwo.  Each invocation of lambda_handler *)
(* builds its own YahooFinanceFetcher (handler.py lines 93-98), whose      *)
(* __init__ sets every field on self: the class and the module hold no     *)
(* counter, list or cache.  The variables of the model are the state of    *)
(* the instance that is running; other is the state of the one that is     *)
(* not.                                                                    *)

MaxTwoRetries == 2

(* Two disjoint partitions of the symbol universe. *)
PartitionOne == <<SymA, SymB1>>
PartitionTwo == << <<"X">> >>

(* The max_retries of the second Fetcher. *)
OtherRetries == {1, 2}

(* The instance that is running: its fields and the locals of its call. *)
Running ==
    [max_retries |-> max_retries, retry_delay |-> retry_delay,
     rate_limit_delay |-> rate_limit_delay, symbols_fetched |-> symbols_fetched,
     symbols_failed |-> symbols_failed, pc |-> pc, symbol |-> symbol,
     attempt |-> attempt, fs_result |-> fs_result, fs_exc |-> fs_exc,
     trace |-> trace, fetched0 |-> fetched0, failed0 |-> failed0, calls |-> calls,
     symbols |-> symbols, i |-> i, results |-> results, fetchlog |-> fetchlog,
     paces |-> paces, outcome |-> outcome, df |-> df, attempted |-> attempted]

(* Lines 20-40 and 184: a new Fetcher entering fetch_multiple_symbols. *)
Fresh(syms, retries, delay) ==
    [max_retries |-> retries, retry_delay |-> delay,
     rate_limit_delay |-> DefaultRateLimitDelay, symbols_fetched |-> 0,
     symbols_failed |-> 0, pc |-> "loop", symbol |-> <<>>, attempt |-> 0,
     fs_result |-> <<>>, fs_exc |-> "", trace |-> <<>>, fetched0 |-> 0,
     failed0 |-> 0, calls |-> 0, symbols |-> syms, i |-> 0, results |-> <<>>,
     fetchlog |-> <<>>, paces |-> <<>>, outcome |-> "running", df |-> <<>>,
     attempted |-> -1]

(* The running instance's state is that of the record r. *)
Resume(r) ==
    /\ max_retries' = r.max_retries
    /\ retry_delay' = r.retry_delay
    /\ rate_limit_delay' = r.rate_limit_delay
    /\ symbols_fetched' = r.symbols_fetched
    /\ symbols_failed' = r.symbols_failed
    /\ pc' = r.pc
    /\ symbol' = r.symbol
    /\ attempt' = r.attempt
    /\ fs_result' = r.fs_result
    /\ fs_exc' = r.fs_exc
    /\ trace' = r.trace
    /\ fetched0' = r.fetched0
    /\ failed0' = r.failed0
    /\ calls' = r.calls
    /\ symbols' = r.symbols
    /\ i' = r.i
    /\ results' = r.results
    /\ fetchlog' = r.fetchlog
    /\ paces' = r.paces
    /\ outcome' = r.outcome
    /\ df' = r.df
    /\ attempted' = r.attempted

InitTwo ==
    /\ InitFetcher
    /\ InitNoValidator
    /\ InitNoHandler
    /\ InitNoSplit
    /\ max_retries \in 0..MaxTwoRetries
    /\ symbols = PartitionOne
    /\ pc = "loop"
    /\ cur = 1
    /\ \E retries \in OtherRetries :
          other = Fresh(PartitionTwo, retries, DefaultRetryDelay)

(* The scheduler with the counter symbols_fetched held by the class: the   *)
(* instance that resumes finds the other's count.                          *)
SwitchMutant ==
    /\ other' = Running
    /\ cur' = 3 - cur
    /\ Resume([other EXCEPT !.symbols_fetched = symbols_fetched])
    /\ UNCHANGED <<validatorVars, handlerVars, splitVars>>

(* The scheduler lets the other instance run: every field and local is     *)
(* the instance's own, so all of them are put aside and taken up.          *)
Switch ==
    /\ other' = Running
    /\ cur' = 3 - cur
    /\ Resume(other)
    /\ UNCHANGED <<validatorVars, handlerVars, splitVars>>

NextTwo == LoopCall \/ Attempt \/ AfterFetch \/ Raise \/ Finish \/ Switch

SpecTwo == InitTwo /\ [][NextTwo]_vars

(* The fetch_single_symbol calls of r that have ended with a counter moved: *)
(* those that returned, and the one that raised RateLimitError.            *)
EndedCalls(r) ==
    r.i + (IF r.pc = "returned" \/ (r.pc \in {"raised", "aborted"} /\ r.fs_exc = "RateLimitError")
           THEN 1 ELSE 0)

(* The rows r has fetched so far, from its own log. *)
RowsOf(r) == [k \in 1..Len(r.fetchlog) |-> r.fetchlog[k][2]]

(* What a Fetcher running alone shows at every step: its counters, results *)
(* and outcome are those of its own symbols and its own fetches.           *)
Alone(r) ==
    /\ r.symbols_fetched = Len(r.fetchlog)
    /\ \A k \in 1..Len(r.fetchlog) :
          /\ r.fetchlog[k][1] \in 0..(Len(r.symbols) - 1)
          /\ r.fetchlog[k][2].symbol = r.symbols[r.fetchlog[k][1] + 1]
    /\ r.symbols_failed = IF r.max_retries = 0 THEN 0 ELSE EndedCalls(r) - Len(r.fetchlog)
    /\ r.calls = r.i + (IF r.pc \in {"loop", "done"} THEN 0 ELSE 1)
    /\ r.pc \in {"loop", "done", "aborted", "raised"} => r.results = RowsOf(r)
    /\ r.pc = "done" =>
          /\ r.outcome = "DataFetchError" <=> r.results = <<>>
          /\ r.outcome = "returned" => r.df = r.results
    /\ r.pc = "aborted" => r.outcome = r.fs_exc /\ r.df = <<>>

(* The same, of a Fetcher that runs alone: checked under Spec. *)
AloneInSpec == Alone(Running)

=============================================================================
